---- MODULE Spec2Model ----
(***************************************************************************)
(* Model of the session authority of @yzy98/auth (src/src/auth.ts): the    *)
(* four operations signUp, signIn, signOut and getSession of createAuth,   *)
(* run as concurrent calls against one store (tables user and session of   *)
(* src/src/db/schema.ts) and one cookie jar per client.  Every await on    *)
(* the store is one atomic step of a call; the code that runs              *)
(* synchronously after it (checks, throw, catch block, callbacks, return)  *)
(* belongs to the same step.                                               *)
(***************************************************************************)
EXTENDS Integers, Sequences, FiniteSets, TLC

\* ---------------------------------------------------------------- bounds
NumCalls == 2        \* call slots: calls that can be in flight together
MaxCalls == 2        \* calls started in one behaviour
MaxFaults == 1       \* collaborator faults injected in one behaviour
MaxTicks == 1        \* clock advances in one behaviour
MaxFetches == 3      \* session fetches one mounted hook starts

Calls == 1..NumCalls
Clients == {"A", "B"}
Emails == {"a@x.com", "b@x.com"}
Passwords == {"secret", "wrong"}
\* the passwords users register with
SignUpPasswords == {"secret"}

\* ------------------------------------------------------- optional values
\* null / undefined of the source; a present value x is <<x>>
Null == <<>>
Some(x) == <<x>>
IsNull(x) == x = Null
Val(x) == x[1]

Names == {Null}

\* ------------------------------------------------------ program constants
\* Expire in 1 day (milliseconds)
TTL == 1000 * 60 * 60 * 24
COOKIE_NAME == "yzy98-auth.session_id"

\* amounts by which the clock advances in one step
TickSteps == {1}

\* ------------------------------------------------------------ the errors
Err(m) == [message |-> m]
DuplicateUser == Err("User already exists")
EmailNotValid == Err("Email is not valid")
PasswordNotValid == Err("Password is not valid")
NoSessionIdSignOut == Err("Session id is not valid")
UserNotInDatabase == Err("User is not exist in database")
SessionNotInDatabase == Err("Session is not exist in database")
NoSessionIdInCookie == Err("Session id is not exist in cookie")
SessionExpired == Err("Session is expired")
\* faults of the collaborators
StoreError == Err("store failure")
UniqueViolation == Err("duplicate key value violates unique constraint")
HashError == Err("hash failure")
TransportError == Err("cookie store failure")
CallbackError == Err("callback failure")

CollaboratorFaults == {StoreError, UniqueViolation, HashError, TransportError, CallbackError}

VARIABLES
  users,        \* table user
  sessions,     \* table session
  cookie,       \* per client: the cookie yzy98-auth.session_id, or Null
  now,          \* the clock (Date.now())
  nextUserId,   \* nanoid() of the next user row
  nextSessionId,\* nanoid() of the next session row
  pc,           \* per call: position in its operation
  req,          \* per call: operation, calling client and parameters
  loc,          \* per call: local variables of the operation
  ret,          \* per call: value returned (pc = "returned") or thrown (pc = "threw")
  ncalls,       \* calls started so far
  nfaults,      \* collaborator faults injected so far
  nticks,       \* clock advances so far
  called,       \* per call: the callbacks it was given and those it invoked
  http,         \* the request the route handler is serving, and its response
  hook          \* the state of a mounted useSession hook and its fetches

vars == <<users, sessions, cookie, now, nextUserId, nextSessionId,
          pc, req, loc, ret, ncalls, nfaults, nticks, called, http, hook>>

store == <<users, sessions>>

\* ------------------------------------------------------ result envelope
NoValue == [data |-> Null, error |-> Null]
Success(d) == [data |-> Some(d), error |-> Null]
\* an envelope with both fields set
Failure_withData(e) == [data |-> Some(e), error |-> Some(e)]

Failure(e) == [data |-> Null, error |-> Some(e)]

IsSuccess(r) == ~IsNull(r.data) /\ IsNull(r.error)
IsFailure(r) == IsNull(r.data) /\ ~IsNull(r.error)

\* the user row as the store holds it
PickedUser_whole(u) == u

\* returnedUser = { id, name, email }
PickedUser(u) == [id |-> u.id, name |-> u.name, email |-> u.email]

\* ------------------------------------------------------- password hash
hashPassword(password) == [bcrypt |-> password]
\* a comparison that accepts every password
verifyPassword_always(password, hashedPassword) == TRUE

verifyPassword(password, hashedPassword) == hashedPassword = hashPassword(password)

\* --------------------------------------------------------------- queries
\* a lookup that finds nothing
SelectUserByEmail_none(email) == {}

\* db.select().from(userSchema).where(eq(userSchema.email, email))
SelectUserByEmail(email) == {u \in users : u.email = email}

\* the join without its where clause
JoinSessionUser_anySession(sessionId) ==
  {[user |-> q[1], session |-> q[2]] :
     q \in {r \in users \X sessions : r[2].userId = r[1].id}}

\* a join that leaves out the sessions that have expired
JoinSessionUser_live(sessionId) ==
  {[user |-> q[1], session |-> q[2]] :
     q \in {r \in users \X sessions :
              r[2].id = sessionId /\ r[2].userId = r[1].id /\ ~(r[2].expiresAt < now)}}

\* db.select(...).from(sessionSchema).innerJoin(userSchema, ...).where(eq(sessionSchema.id, sessionId))
JoinSessionUser(sessionId) ==
  {[user |-> q[1], session |-> q[2]] :
     q \in {r \in users \X sessions : r[2].id = sessionId /\ r[2].userId = r[1].id}}

\* a delete of every session of the user of sessionId
SessionsWithId_ofUser(sessionId) ==
  {s \in sessions : \E t \in sessions : t.id = sessionId /\ t.userId = s.userId}

\* .where(eq(sessionSchema.id, sessionId)) of the two deletes
SessionsWithId(sessionId) == {s \in sessions : s.id = sessionId}

\* a column without the constraint
ViolatesUnique_never(email) == FALSE

\* email: text("email").notNull().unique()
ViolatesUnique(email) == \E u \in users : u.email = email

\* const expiresAt = new Date(Date.now() + 1000 * 60 * 60 * 24)
ExpiresAt(t) == t + TTL

\* a session that never expires
IsExpired_never(s, t) == FALSE

\* matchedSession.session.expiresAt < new Date()
IsExpired(s, t) == s.expiresAt < t

\* an id generator that hands out one id again
SessionId_reused(n) == 1

\* id: text("id").primaryKey().$defaultFn(() => nanoid()): the n-th id drawn
\* for a session row is an id that was not drawn before
SessionId(n) == n

NewUser(id, name, email, hashed) ==
  [id |-> id, name |-> name, email |-> email, password |-> hashed]

\* a session row for a user id that no user row has
NewSession_orphan(id, expiresAt, userId, t) ==
  [id |-> id, expiresAt |-> expiresAt, createdAt |-> t, updatedAt |-> t, userId |-> userId + 1]

\* .values({ expiresAt, userId: createdUser.id }) with the defaults of the table
NewSession(id, expiresAt, userId, t) ==
  [id |-> id, expiresAt |-> expiresAt, createdAt |-> t, updatedAt |-> t, userId |-> userId]

\* an insert that ends the earlier sessions of the same user
SessionsAfterInsert_replacing(row) == {s \in sessions : s.userId # row.userId} \cup {row}

\* an insert that extends the other sessions of the same user
SessionsAfterInsert_extending(row) ==
  {IF s.userId = row.userId THEN [s EXCEPT !.expiresAt = row.expiresAt] ELSE s : s \in sessions}
    \cup {row}

\* db.insert(sessionSchema).values(...).returning(): the table after the insert
SessionsAfterInsert(row) == sessions \cup {row}

\* a token that carries the id of the user
SessionCookie_userId(s, expiresAt) ==
  [name |-> COOKIE_NAME, value |-> s.userId, httpOnly |-> TRUE, secure |-> TRUE,
   expires |-> expiresAt, sameSite |-> "lax", path |-> "/"]

\* cookieStore.set("yzy98-auth.session_id", createdSession.id, {...})
SessionCookie(s, expiresAt) ==
  [name |-> COOKIE_NAME, value |-> s.id, httpOnly |-> TRUE, secure |-> TRUE,
   expires |-> expiresAt, sameSite |-> "lax", path |-> "/"]

\* a delete that is taken to have found no row
NothingDeleted_always(deleted) == TRUE

\* a delete whose returned rows are not looked at
NothingDeleted_ignored(deleted) == FALSE

\* const [deletedSession] = ...returning(); if (!deletedSession)
NothingDeleted(deleted) == deleted = {}

\* a read that takes every token as present
MissingToken_skipped(sessionId) == FALSE

\* if (!sessionId)
MissingToken(sessionId) == IsNull(sessionId)

\* a delete that leaves the cookie
DeleteCookie_kept(cl) == cookie

\* cookieStore.delete("yzy98-auth.session_id")
DeleteCookie(cl) == [cookie EXCEPT ![cl] = Null]

\* a transport that hands over no cookie
CookieValue_absent(cl) == Null

\* cookieStore.get("yzy98-auth.session_id")?.value
CookieValue(cl) == IF IsNull(cookie[cl]) THEN Null ELSE Some(Val(cookie[cl]).value)

\* no request is being served: the authority is called directly
NoRequest == [pc |-> "none"]
\* no component uses the hook
NotMounted == [pc |-> "none"]

NoReq == [op |-> "none", client |-> "A", email |-> "a@x.com"]
\* the parameters name and password, and the local variables sessionId,
\* createdUser / matchedUser / signedOutUser (user), createdSession / matchedSession (session)
NoLoc == [name |-> Null, password |-> Null, sessionId |-> Null, user |-> Null, session |-> Null]
\* no callbacks given, none invoked
NotCalled == [given |-> [onSuccess |-> FALSE, onError |-> FALSE], invoked |-> <<>>]

\* The store and the cookies outlive the authority: createAuth({ db }) is
\* handed a database that is empty, or one that earlier calls have filled.
\* EmptyStore is the fresh database at time 0.  SignedIn is the state reached
\* by signUp of a@x.com by client A at time 0 and signIn with the same
\* credentials by client B at time 1, seen at time TTL: one user, and one
\* session and cookie per client; the session of A is at its expiresAt
\* and the session of B one tick before its own.
EmptyStore ==
  [users |-> {}, sessions |-> {}, cookie |-> [cl \in Clients |-> Null],
   nextUserId |-> 1, nextSessionId |-> 1, now |-> 0]

SignedIn ==
  LET u == NewUser(1, Null, "a@x.com", hashPassword("secret"))
      s1 == NewSession(1, ExpiresAt(0), u.id, 0)
      s2 == NewSession(2, ExpiresAt(1), u.id, 1)
  IN [users |-> {u}, sessions |-> {s1, s2},
      cookie |-> [cl \in Clients |-> IF cl = "A" THEN Some(SessionCookie(s1, s1.expiresAt))
                                     ELSE Some(SessionCookie(s2, s2.expiresAt))],
      nextUserId |-> 2, nextSessionId |-> 3, now |-> TTL]

InitialStores == {EmptyStore, SignedIn}

Init ==
  /\ \E db \in InitialStores :
       /\ users = db.users
       /\ sessions = db.sessions
       /\ cookie = db.cookie
       /\ nextUserId = db.nextUserId
       /\ nextSessionId = db.nextSessionId
       /\ now = db.now
  /\ pc = [c \in Calls |-> "idle"]
  /\ req = [c \in Calls |-> NoReq]
  /\ loc = [c \in Calls |-> NoLoc]
  /\ ret = [c \in Calls |-> NoValue]
  /\ ncalls = 0
  /\ nfaults = 0
  /\ nticks = 0
  /\ called = [c \in Calls |-> NotCalled]
  /\ http = NoRequest
  /\ hook = NotMounted

Ended(c) == pc[c] \in {"idle", "returned", "threw"}
\* a new call takes the first slot that is free
Free(c) == Ended(c) /\ \A d \in Calls : d < c => ~Ended(d)

\* a collaborator may fail in this step
MayFault == nfaults < MaxFaults
Fault == MayFault /\ nfaults' = nfaults + 1
NoFault == nfaults' = nfaults

\* how a supplied callback behaves when invoked
CallbackKinds == {"absent", "returns", "throws"}
\* { onSuccess, onError }: SignUpCallback = {}
Callbacks == [onSuccess : CallbackKinds, onError : CallbackKinds]

\* ------------------------------------------------------------ call ends
\* slot c takes the value v.  When this starts a new call in c, the calls
\* that ended before it are no longer observed and their slots are blank.
Upd(f, c, v, blank) ==
  [d \in Calls |-> IF d = c THEN v
                   ELSE IF Ended(c) /\ Ended(d) THEN blank ELSE f[d]]

\* the call leaves its operation at label with r, having invoked cbs
Leave(c, label, r, cbs) ==
  /\ pc' = Upd(pc, c, label, "idle")
  /\ ret' = Upd(ret, c, r, NoValue)
  /\ loc' = Upd(loc, c, NoLoc, NoLoc)
  /\ called' = Upd(called, c, cbs, NotCalled)

\* return { data: ..., error: null } / return { data: null, error }
Return(c, r) == Leave(c, "returned", r, NotCalled)

\* a fault leaves the operation: nothing is returned
Throw(c, e, cbs) == Leave(c, "threw", [data |-> Null, error |-> Some(e)], cbs)

\* onSuccess?.(user) / onError?.(error): the callback name of cbs is
\* invoked with its argument if it was given
Invoke(cbs, name, user, error) ==
  [given |-> [onSuccess |-> cbs.onSuccess # "absent", onError |-> cbs.onError # "absent"],
   invoked |-> IF cbs[name] = "absent" THEN <<>>
               ELSE <<[callback |-> name, user |-> user, error |-> error]>>]

\* catch (error) { onError?.(error); return { data: null, error } }
Catch(c, e) ==
  \E cbs \in Callbacks :
    LET inv == Invoke(cbs, "onError", Null, Some(e))
    IN IF cbs.onError = "throws" THEN Throw(c, CallbackError, inv)
       ELSE Leave(c, "returned", Failure(e), inv)

\* onSuccess?.(returnedUser); return { data: { user: returnedUser }, error: null }
Succeed(c, u) ==
  \E cbs \in Callbacks :
    LET inv == Invoke(cbs, "onSuccess", Some(PickedUser(u)), Null)
    IN IF cbs.onSuccess = "throws" THEN Throw(c, CallbackError, inv)
       ELSE Leave(c, "returned", Success([user |-> PickedUser(u)]), inv)

\* the call goes on to its next await with the locals l
Goto(c, label, l) ==
  /\ pc' = Upd(pc, c, label, "idle")
  /\ loc' = Upd(loc, c, l, NoLoc)
  /\ ret' = Upd(ret, c, NoValue, NoValue)
  /\ called' = Upd(called, c, NotCalled, NotCalled)

\* a call r starts in slot c
Begin(c, r) ==
  /\ Free(c)
  /\ ncalls < MaxCalls
  /\ ncalls' = ncalls + 1
  /\ req' = Upd(req, c, r, NoReq)

\* ================================================================ signUp
signUp_call(c) ==
  /\ \E cl \in Clients, name \in Names, email \in Emails, password \in SignUpPasswords :
       /\ Begin(c, [op |-> "signUp", client |-> cl, email |-> email])
       /\ Goto(c, "signUp_select", [NoLoc EXCEPT !.name = name, !.password = Some(password)])
  /\ UNCHANGED <<store, cookie, now, nextUserId, nextSessionId, nfaults, nticks, http, hook>>

\* Check if user already exists
signUp_select(c) ==
  /\ pc[c] = "signUp_select"
  /\ \/ Fault /\ Catch(c, StoreError)
     \/ /\ NoFault
        /\ IF SelectUserByEmail(req[c].email) # {}
             THEN Catch(c, DuplicateUser)
             ELSE Goto(c, "signUp_insertUser", loc[c])
  /\ UNCHANGED <<store, cookie, now, nextUserId, nextSessionId, req, ncalls, nticks, http, hook>>

\* hashPassword, then Create user
signUp_insertUser(c) ==
  /\ pc[c] = "signUp_insertUser"
  /\ \/ /\ Fault
        /\ \E e \in {HashError, StoreError} : Catch(c, e)
        /\ UNCHANGED <<users, nextUserId>>
     \/ /\ NoFault
        /\ IF ViolatesUnique(req[c].email)
             THEN /\ Catch(c, UniqueViolation)
                  /\ UNCHANGED <<users, nextUserId>>
             ELSE LET row == NewUser(nextUserId, loc[c].name, req[c].email,
                                     hashPassword(Val(loc[c].password)))
                  IN /\ users' = users \cup {row}
                     /\ nextUserId' = nextUserId + 1
                     /\ Goto(c, "signUp_insertSession", [NoLoc EXCEPT !.user = Some(row)])
  /\ UNCHANGED <<sessions, cookie, now, nextSessionId, req, ncalls, nticks, http, hook>>

\* the cookie set before the insert has returned
InsertSession_tokenFirst(c, next) ==
  LET row == NewSession(SessionId(nextSessionId), ExpiresAt(now), Val(loc[c].user).id, now)
  IN /\ cookie' = [cookie EXCEPT ![req[c].client] = Some(SessionCookie(row, row.expiresAt))]
     /\ \/ /\ Fault
           /\ Catch(c, StoreError)
           /\ UNCHANGED <<sessions, nextSessionId>>
        \/ /\ NoFault
           /\ sessions' = SessionsAfterInsert(row)
           /\ nextSessionId' = nextSessionId + 1
           /\ Goto(c, next, [loc[c] EXCEPT !.session = Some(row)])

\* Create session (signUp and signIn): expiresAt, then the insert
InsertSession(c, next) ==
  \/ /\ Fault
     /\ Catch(c, StoreError)
     /\ UNCHANGED <<sessions, nextSessionId, cookie>>
  \/ /\ NoFault
     /\ UNCHANGED cookie
     /\ LET row == NewSession(SessionId(nextSessionId), ExpiresAt(now), Val(loc[c].user).id, now)
        IN /\ sessions' = SessionsAfterInsert(row)
           /\ nextSessionId' = nextSessionId + 1
           /\ Goto(c, next, [loc[c] EXCEPT !.session = Some(row)])

\* Set-Cookie in response header (signUp and signIn), then the success return
SetCookie(c) ==
  \/ /\ Fault
     /\ Catch(c, TransportError)
     /\ UNCHANGED cookie
  \/ /\ NoFault
     /\ cookie' = [cookie EXCEPT ![req[c].client] =
                     Some(SessionCookie(Val(loc[c].session), Val(loc[c].session).expiresAt))]
     /\ Succeed(c, Val(loc[c].user))

signUp_insertSession(c) ==
  /\ pc[c] = "signUp_insertSession"
  /\ InsertSession(c, "signUp_setCookie")
  /\ UNCHANGED <<users, now, nextUserId, req, ncalls, nticks, http, hook>>

signUp_setCookie(c) ==
  /\ pc[c] = "signUp_setCookie"
  /\ SetCookie(c)
  /\ UNCHANGED <<store, now, nextUserId, nextSessionId, req, ncalls, nticks, http, hook>>

\* ================================================================ signIn
signIn_call(c) ==
  /\ \E cl \in Clients, email \in Emails, password \in Passwords :
       /\ Begin(c, [op |-> "signIn", client |-> cl, email |-> email])
       /\ Goto(c, "signIn_select", [NoLoc EXCEPT !.password = Some(password)])
  /\ UNCHANGED <<store, cookie, now, nextUserId, nextSessionId, nfaults, nticks, http, hook>>

\* Find user, then Verify password
signIn_select(c) ==
  /\ pc[c] = "signIn_select"
  /\ \/ /\ Fault
        /\ \E e \in {StoreError, HashError} : Catch(c, e)
     \/ /\ NoFault
        /\ IF SelectUserByEmail(req[c].email) = {}
             THEN Catch(c, EmailNotValid)
             ELSE \E matchedUser \in SelectUserByEmail(req[c].email) :
                    IF ~verifyPassword(Val(loc[c].password), matchedUser.password)
                      THEN Catch(c, PasswordNotValid)
                      ELSE Goto(c, "signIn_insertSession",
                                [NoLoc EXCEPT !.user = Some(matchedUser)])
  /\ UNCHANGED <<store, cookie, now, nextUserId, nextSessionId, req, ncalls, nticks, http, hook>>

signIn_insertSession(c) ==
  /\ pc[c] = "signIn_insertSession"
  /\ InsertSession(c, "signIn_setCookie")
  /\ UNCHANGED <<users, now, nextUserId, req, ncalls, nticks, http, hook>>

signIn_setCookie(c) ==
  /\ pc[c] = "signIn_setCookie"
  /\ SetCookie(c)
  /\ UNCHANGED <<store, now, nextUserId, nextSessionId, req, ncalls, nticks, http, hook>>

\* =============================================================== signOut
\* Get session id from cookie
signOut_call(c) ==
  /\ \E cl \in Clients :
       /\ Begin(c, [NoReq EXCEPT !.op = "signOut", !.client = cl])
       /\ \/ Fault /\ Catch(c, TransportError)
          \/ /\ NoFault
             /\ IF MissingToken(CookieValue(cl))
                  THEN Catch(c, NoSessionIdSignOut)
                  ELSE Goto(c, "signOut_select", [NoLoc EXCEPT !.sessionId = CookieValue(cl)])
  /\ UNCHANGED <<store, cookie, now, nextUserId, nextSessionId, nticks, http, hook>>

\* the join of the session with its user
signOut_select(c) ==
  /\ pc[c] = "signOut_select"
  /\ \/ Fault /\ Catch(c, StoreError)
     \/ /\ NoFault
        /\ IF JoinSessionUser(Val(loc[c].sessionId)) = {}
             THEN Catch(c, UserNotInDatabase)
             ELSE \E j \in JoinSessionUser(Val(loc[c].sessionId)) :
                    Goto(c, "signOut_delete", [loc[c] EXCEPT !.user = Some(j.user)])
  /\ UNCHANGED <<store, cookie, now, nextUserId, nextSessionId, req, ncalls, nticks, http, hook>>

\* Delete session in database, then Delete cookie in client
signOut_delete(c) ==
  /\ pc[c] = "signOut_delete"
  /\ LET deleted == SessionsWithId(Val(loc[c].sessionId))
     IN \/ /\ Fault
           /\ Catch(c, StoreError)
           /\ UNCHANGED <<sessions, cookie>>
        \/ /\ sessions' = sessions \ deleted
           /\ IF NothingDeleted(deleted)
                THEN /\ NoFault
                     /\ Catch(c, SessionNotInDatabase)
                     /\ UNCHANGED cookie
                ELSE \/ /\ Fault
                        /\ Catch(c, TransportError)
                        /\ UNCHANGED cookie
                     \/ /\ NoFault
                        /\ cookie' = DeleteCookie(req[c].client)
                        /\ Succeed(c, Val(loc[c].user))
  /\ UNCHANGED <<users, now, nextUserId, nextSessionId, req, ncalls, nticks, http, hook>>

\* ============================================================ getSession
\* Get session id from cookie
getSession_call(c) ==
  /\ \E cl \in Clients :
       /\ Begin(c, [NoReq EXCEPT !.op = "getSession", !.client = cl])
       /\ \/ Fault /\ Return(c, Failure(TransportError))
          \/ /\ NoFault
             /\ IF MissingToken(CookieValue(cl))
                  THEN Return(c, Failure(NoSessionIdInCookie))
                  ELSE Goto(c, "getSession_select", [NoLoc EXCEPT !.sessionId = CookieValue(cl)])
  /\ UNCHANGED <<store, cookie, now, nextUserId, nextSessionId, nticks, http, hook>>

\* Find session and related user in database, then Check if session has expired
getSession_select(c) ==
  /\ pc[c] = "getSession_select"
  /\ \/ Fault /\ Return(c, Failure(StoreError))
     \/ /\ NoFault
        /\ IF JoinSessionUser(Val(loc[c].sessionId)) = {}
             THEN Return(c, Failure(SessionNotInDatabase))
             ELSE \E matchedSession \in JoinSessionUser(Val(loc[c].sessionId)) :
                    IF IsExpired(matchedSession.session, now)
                      THEN Goto(c, "getSession_delete",
                                [loc[c] EXCEPT !.session = Some(matchedSession.session)])
                      ELSE Return(c, Success([user |-> PickedUser(matchedSession.user),
                                              session |-> matchedSession.session]))
  /\ UNCHANGED <<store, cookie, now, nextUserId, nextSessionId, req, ncalls, nticks, http, hook>>

\* Delete expired session, Delete cookie, throw "Session is expired"
getSession_delete(c) ==
  /\ pc[c] = "getSession_delete"
  /\ \/ /\ Fault
        /\ Return(c, Failure(StoreError))
        /\ UNCHANGED <<sessions, cookie>>
     \/ /\ sessions' = sessions \ SessionsWithId(Val(loc[c].sessionId))
        /\ \/ /\ Fault
              /\ Return(c, Failure(TransportError))
              /\ UNCHANGED cookie
           \/ /\ NoFault
              /\ cookie' = DeleteCookie(req[c].client)
              /\ Return(c, Failure(SessionExpired))
  /\ UNCHANGED <<users, now, nextUserId, nextSessionId, req, ncalls, nticks, http, hook>>

\* ================================================================= clock
\* time passes while a call is still to read the clock
Tick ==
  /\ nticks < MaxTicks
  /\ ncalls < MaxCalls \/ \E c \in Calls : ~Ended(c)
  /\ nticks' = nticks + 1
  /\ \E d \in TickSteps : now' = now + d
  /\ UNCHANGED <<store, cookie, nextUserId, nextSessionId, pc, req, loc, ret, ncalls, nfaults, called, http, hook>>

Next ==
  \/ \E c \in Calls : signUp_call(c)
  \/ \E c \in Calls : signUp_select(c)
  \/ \E c \in Calls : signUp_insertUser(c)
  \/ \E c \in Calls : signUp_insertSession(c)
  \/ \E c \in Calls : signUp_setCookie(c)
  \/ \E c \in Calls : signIn_call(c)
  \/ \E c \in Calls : signIn_select(c)
  \/ \E c \in Calls : signIn_insertSession(c)
  \/ \E c \in Calls : signIn_setCookie(c)
  \/ \E c \in Calls : signOut_call(c)
  \/ \E c \in Calls : signOut_select(c)
  \/ \E c \in Calls : signOut_delete(c)
  \/ \E c \in Calls : getSession_call(c)
  \/ \E c \in Calls : getSession_select(c)
  \/ \E c \in Calls : getSession_delete(c)
  \/ Tick

Spec == Init /\ [][Next]_vars

\* ======================================================= route handlers
\* NextJsRouter(auth) of src/src/integrations/next-js.ts: the handlers POST
\* and GET of the route app/api/auth/[...all].  A request is served in one
\* step; the authority operation the handler awaits is taken by its result,
\* any of the results the operation can return.
POST_ACTION ==
  [SIGN_UP |-> "sign-up", SIGN_IN |-> "sign-in", SIGN_OUT |-> "sign-out",
   GET_SESSION |-> "get-session"]
GET_ACTION == [GET_SESSION |-> "get-session"]

Methods == {"POST", "GET"}
\* (await params).all[0]: an action of the router or another path segment
ActionNames == {"sign-up", "sign-in", "sign-out", "get-session", "delete-user"}
\* a field of the JSON body: absent, the empty string, or a text
FieldValues == {Null, Some(""), Some("a@x.com")}
\* await request.json(): Null when the body is not JSON and the read throws
Bodies == {Null} \cup {Some([email |-> e, password |-> p]) : e, p \in FieldValues}
Requests == [method : Methods, action : ActionNames, params : {"ok", "fault"}, body : Bodies]

\* the results an operation of the authority can return to the handler
AuthorityErrors(op) ==
  CASE op = "signUp" -> {DuplicateUser, StoreError, UniqueViolation, HashError, TransportError}
    [] op = "signIn" -> {EmailNotValid, PasswordNotValid, StoreError, HashError, TransportError}
    [] op = "signOut" -> {NoSessionIdSignOut, UserNotInDatabase, SessionNotInDatabase,
                          StoreError, TransportError}
    [] op = "getSession" -> {NoSessionIdInCookie, SessionNotInDatabase, SessionExpired,
                             StoreError, TransportError}
    [] OTHER -> {}

AuthorityData(op) ==
  IF op = "getSession"
    THEN {[user |-> PickedUser(u), session |-> x] : u \in SignedIn.users, x \in SignedIn.sessions}
    ELSE {[user |-> PickedUser(u)] : u \in SignedIn.users}

AuthorityResults(op) ==
  {Success(d) : d \in AuthorityData(op)} \cup {Failure(e) : e \in AuthorityErrors(op)}

\* truthiness of a field of the body
Truthy(v) == v # Null /\ v # Some("")

\* NextResponse.json(body, { status })
NextResponse(body, status) == [status |-> status, body |-> body]
\* the bodies { error }, { user } and { session }
JsonError(message) == [keys |-> {"error"}, error |-> Some(message), user |-> Null, session |-> Null]
JsonUser(u) == [keys |-> {"user"}, error |-> Null, user |-> Some(u), session |-> Null]
JsonSession(x) == [keys |-> {"session"}, error |-> Null, user |-> Null, session |-> x]

\* result.error?.message || fallback
Message(e, fallback) == IF e.message = "" THEN fallback ELSE e.message

\* what a handler did: the operations it invoked, the result it was given,
\* and its response (Null when a fault left the handler)
Outcome(invoked, result, response) ==
  [invoked |-> invoked, result |-> result, response |-> response]
Rejected(message, status) == Outcome(<<>>, Null, Some(NextResponse(JsonError(message), status)))
Faulted == Outcome(<<>>, Null, Null)

\* a validation that lets every body through
RequiredFieldsPresent_unchecked(body) == TRUE

\* body.email && body.password
RequiredFieldsPresent(body) == Truthy(body.email) /\ Truthy(body.password)

\* the answer to an operation that returned a user
SignActionResponse(op, result, fallback) ==
  IF ~IsNull(result.error)
    THEN Outcome(<<op>>, Some(result),
                 Some(NextResponse(JsonError(Message(Val(result.error), fallback)), 400)))
    ELSE Outcome(<<op>>, Some(result),
                 Some(NextResponse(JsonUser(Val(result.data).user), 200)))

handleSignUp(request, result) ==
  IF IsNull(request.body) THEN Faulted
  ELSE IF ~RequiredFieldsPresent(Val(request.body))
    THEN Rejected("Email and password are required", 400)
    ELSE SignActionResponse("signUp", result, "Sign up failed")

handleSignIn(request, result) ==
  IF IsNull(request.body) THEN Faulted
  ELSE IF ~RequiredFieldsPresent(Val(request.body))
    THEN Rejected("Email and password are required", 400)
    ELSE SignActionResponse("signIn", result, "Sign In failed")

handleSignOut(result) == SignActionResponse("signOut", result, "Sign Out failed")

\* the handler of the earlier revision of the router
handleGetSession_earlier(result) ==
  IF ~IsNull(result.error)
    THEN Outcome(<<"getSession">>, Some(result),
                 Some(NextResponse(JsonError(Message(Val(result.error), "Get Session failed")), 400)))
    ELSE Outcome(<<"getSession">>, Some(result),
                 Some(NextResponse(JsonSession(result.data), 200)))

handleGetSession(result) ==
  IF ~IsNull(result.error)
    THEN Outcome(<<"getSession">>, Some(result), Some(NextResponse(JsonSession(Null), 200)))
    ELSE Outcome(<<"getSession">>, Some(result), Some(NextResponse(JsonSession(result.data), 200)))

\* catch (error) { return NextResponse.json({ error: ... }, { status: 500 }) }
\* (the message is that of the fault; only its status is kept apart here)
InternalError(out) ==
  IF IsNull(out.response)
    THEN [out EXCEPT !.response = Some(NextResponse(JsonError("Internal server error"), 500))]
    ELSE out

\* the operation a handler awaits for an action, if any
OperationOf(method, action) ==
  CASE action = "get-session" -> "getSession"
    [] method = "POST" /\ action = "sign-up" -> "signUp"
    [] method = "POST" /\ action = "sign-in" -> "signIn"
    [] method = "POST" /\ action = "sign-out" -> "signOut"
    [] OTHER -> "none"

\* the result the awaited operation returns; NoValue when none is awaited
Awaited(request) ==
  IF AuthorityResults(OperationOf(request.method, request.action)) = {}
    THEN {NoValue}
    ELSE AuthorityResults(OperationOf(request.method, request.action))

Respond(request, out) ==
  http' = [pc |-> "responded", request |-> request, invoked |-> out.invoked,
           result |-> out.result, response |-> out.response]

AuthorityVars ==
  <<users, sessions, cookie, now, nextUserId, nextSessionId, pc, req, loc, ret,
    ncalls, nfaults, nticks, called>>

postHandler ==
  /\ http.pc = "received"
  /\ http.request.method = "POST"
  /\ \E result \in Awaited(http.request) :
       LET request == http.request
           action == request.action
           out == IF request.params = "fault" THEN Faulted
                  ELSE CASE action = POST_ACTION.SIGN_UP -> handleSignUp(request, result)
                         [] action = POST_ACTION.SIGN_IN -> handleSignIn(request, result)
                         [] action = POST_ACTION.SIGN_OUT -> handleSignOut(result)
                         [] action = POST_ACTION.GET_SESSION -> handleGetSession(result)
                         [] OTHER -> Rejected("Invalid action", 400)
       IN Respond(request, InternalError(out))
  /\ UNCHANGED <<AuthorityVars, hook>>

getHandler ==
  /\ http.pc = "received"
  /\ http.request.method = "GET"
  /\ \E result \in Awaited(http.request) :
       LET request == http.request
           out == IF request.params = "fault" THEN Faulted
                  ELSE IF request.action = GET_ACTION.GET_SESSION
                    THEN handleGetSession(result)
                    ELSE Rejected("Method not allowed", 405)
       IN Respond(request, InternalError(out))
  /\ UNCHANGED <<AuthorityVars, hook>>

\* a request arrives at the route; the authority is at rest
AdapterInit ==
  /\ users = SignedIn.users
  /\ sessions = SignedIn.sessions
  /\ cookie = SignedIn.cookie
  /\ nextUserId = SignedIn.nextUserId
  /\ nextSessionId = SignedIn.nextSessionId
  /\ now = SignedIn.now
  /\ pc = [c \in Calls |-> "idle"]
  /\ req = [c \in Calls |-> NoReq]
  /\ loc = [c \in Calls |-> NoLoc]
  /\ ret = [c \in Calls |-> NoValue]
  /\ ncalls = 0
  /\ nfaults = 0
  /\ nticks = 0
  /\ called = [c \in Calls |-> NotCalled]
  /\ \E request \in Requests :
       http = [pc |-> "received", request |-> request, invoked |-> <<>>,
               result |-> Null, response |-> Null]
  /\ hook = NotMounted

AdapterNext == postHandler \/ getHandler

AdapterSpec == AdapterInit /\ [][AdapterNext]_vars

\* ========================================================= useSession
\* what GET /api/auth/get-session answers: the responses of the route
\* handler to the results of getSession, and to a fault
GetSessionResponses ==
  {Val(InternalError(out).response) :
     out \in {handleGetSession(r) : r \in AuthorityResults("getSession")} \cup {Faulted}}

\* response.ok
Ok(response) == response.status \in 200..299

\* new Error(`Failed to fetch session: ${response.status}`)
FetchFailed(status) ==
  Err(CASE status = 500 -> "Failed to fetch session: 500"
        [] status = 405 -> "Failed to fetch session: 405"
        [] status = 400 -> "Failed to fetch session: 400"
        [] OTHER -> "Failed to fetch session")
\* the rejection of fetch(), and of response.json()
NetworkError == Err("Failed to fetch")
ParseError == Err("Unexpected end of JSON input")

\* useState(null), useState(null), useState(true): the hook after the first
\* render of its component, whose effects are still to run; no fetch started
Mounted ==
  [pc |-> "mounted", data |-> Null, error |-> Null, isLoading |-> TRUE, fetches |-> <<>>,
   renders |-> 1, dirty |-> FALSE, effect |-> "pending"]

Fetches == 1..MaxFetches

\* the function that useCallback(async () => {...}, []) hands to a render:
\* with no dependencies, always the one the first render created
useCallback(render) == 1

\* an effect without a list of dependencies runs after every render
EffectDue_everyRender(render) == TRUE

\* useEffect(..., [fetchSession]): the effect runs after the first render,
\* and after a render in which fetchSession is another function than before
EffectDue(render) == render = 1 \/ useCallback(render) # useCallback(render - 1)

\* a setter schedules a render when it changes the state it sets
Schedules(changed) == hook.dirty \/ changed

\* fetchSession up to its first await: setIsLoading(true); setError(null); fetch(...)
fetchSession(h, by) ==
  [h EXCEPT !.isLoading = TRUE, !.error = Null,
            !.dirty = Schedules(~h.isLoading \/ h.error # Null),
            !.fetches = Append(@, [pc |-> "fetch", by |-> by, response |-> Null, shown |-> Null])]

\* catch (err) { setError(err); setData(null) } finally { setIsLoading(false) }
Failed(f, e) ==
  hook' = [hook EXCEPT !.error = Some(e), !.data = Null, !.isLoading = FALSE,
                       !.dirty = Schedules(TRUE),
                       !.fetches[f] = [@ EXCEPT !.pc = "done", !.response = Null,
                                                !.shown = Some([data |-> Null, error |-> Some(e)])]]

\* setData(result.session) ... finally { setIsLoading(false) }
Loaded(f, session) ==
  hook' = [hook EXCEPT !.data = session, !.isLoading = FALSE,
                       !.dirty = Schedules(session # Null \/ hook.data # Null \/ hook.isLoading),
                       !.fetches[f] = [@ EXCEPT !.pc = "done", !.response = Null,
                                                !.shown = Some([data |-> session, error |-> Null])]]

\* the component renders again with the state the setters left, and the
\* effects that are due are scheduled
render ==
  /\ hook.pc = "mounted"
  /\ hook.dirty
  /\ hook.effect # "pending"
  /\ hook' = [hook EXCEPT !.renders = @ + 1, !.dirty = FALSE,
                          !.effect = IF EffectDue(hook.renders + 1) THEN "pending" ELSE @]
  /\ UNCHANGED <<AuthorityVars, http>>

\* useEffect(() => { fetchSession() }, [fetchSession])
useEffect ==
  /\ hook.pc = "mounted"
  /\ hook.effect = "pending"
  /\ Len(hook.fetches) < MaxFetches
  /\ hook' = fetchSession([hook EXCEPT !.effect = "ran"], "useEffect")
  /\ UNCHANGED <<AuthorityVars, http>>

\* refetch: fetchSession, called by the component
refetch ==
  /\ hook.pc = "mounted"
  /\ Len(hook.fetches) \in 1..(MaxFetches - 1)
  /\ hook' = fetchSession(hook, "refetch")
  /\ UNCHANGED <<AuthorityVars, http>>

\* await fetch(...) settles; if (!response.ok) throw ...
fetchSession_fetch(f) ==
  /\ hook.pc = "mounted"
  /\ f \in DOMAIN hook.fetches
  /\ hook.fetches[f].pc = "fetch"
  /\ \/ Failed(f, NetworkError)
     \/ \E response \in GetSessionResponses :
          IF ~Ok(response)
            THEN Failed(f, FetchFailed(response.status))
            ELSE hook' = [hook EXCEPT !.fetches[f] = [@ EXCEPT !.pc = "json",
                                                               !.response = Some(response)]]
  /\ UNCHANGED <<AuthorityVars, http>>

\* await response.json() settles; setData(result.session)
fetchSession_json(f) ==
  /\ hook.pc = "mounted"
  /\ f \in DOMAIN hook.fetches
  /\ hook.fetches[f].pc = "json"
  /\ \/ Failed(f, ParseError)
     \/ Loaded(f, Val(hook.fetches[f].response).body.session)
  /\ UNCHANGED <<AuthorityVars, http>>

\* a component that uses the hook has rendered once; the authority is at rest
HookInit ==
  /\ users = SignedIn.users
  /\ sessions = SignedIn.sessions
  /\ cookie = SignedIn.cookie
  /\ nextUserId = SignedIn.nextUserId
  /\ nextSessionId = SignedIn.nextSessionId
  /\ now = SignedIn.now
  /\ pc = [c \in Calls |-> "idle"]
  /\ req = [c \in Calls |-> NoReq]
  /\ loc = [c \in Calls |-> NoLoc]
  /\ ret = [c \in Calls |-> NoValue]
  /\ ncalls = 0
  /\ nfaults = 0
  /\ nticks = 0
  /\ called = [c \in Calls |-> NotCalled]
  /\ http = NoRequest
  /\ hook = Mounted

HookNext ==
  \/ render
  \/ useEffect
  \/ refetch
  \/ \E f \in Fetches : fetchSession_fetch(f)
  \/ \E f \in Fetches : fetchSession_json(f)

HookSpec == HookInit /\ [][HookNext]_vars

\* every fetch settles, and React renders and runs the effects it scheduled;
\* nothing obliges the component to call refetch
Settles ==
  \/ render
  \/ useEffect
  \/ \E f \in Fetches : fetchSession_fetch(f)
  \/ \E f \in Fetches : fetchSession_json(f)

HookFairSpec == HookSpec /\ WF_vars(Settles)

\* ======================================================= documented usage
\* the truth value of what an operation resolved to: null and undefined
\* are falsy, every object is truthy
ToBoolean(v) == DOMAIN v # {}

\* README, Server-Side Usage:
\*   const session = await auth.getSession();
\*   if (!session) { redirect("/sign-in"); }
DashboardPage(session) == IF ~ToBoolean(session) THEN "redirect" ELSE "render"

\* ============================================================ properties
\* the step that starts a call of op in slot c
Starts(c, op) == ncalls' = ncalls + 1 /\ Free(c) /\ req'[c].op = op

\* the step the call in slot c takes from the await named label
At(c, label) == pc[c] = label /\ pc'[c] # label

\* the rows of the store, read without the queries of the code
UsersWithEmail(us, email) == {u \in us : u.email = email}
RowsWithId(ss, id) == {s \in ss : s.id = id}
Owned(us, ss, id) == {s \in RowsWithId(ss, id) : \E u \in us : u.id = s.userId}

\* C1: a signUp whose lookup finds a user row with its email ends at once
\* with the failure "User already exists" (DuplicateUser), inserts no user
\* row and no session row and sets no token, and the store holds exactly one
\* user row with that email; a signUp for an email with no user row, which
\* meets no collaborator fault, inserts the one user row of that email and
\* returns success with it.
C1_DuplicateSignUp ==
  [][\A c \in Calls :
       LET e == req[c].email IN
       /\ (At(c, "signUp_select") /\ UsersWithEmail(users, e) # {})
          => /\ pc'[c] \in {"returned", "threw"}
             /\ pc'[c] = "returned" => IsFailure(ret'[c])
             /\ (pc'[c] = "returned" /\ NoFault) => ret'[c] = Failure(DuplicateUser)
             /\ UNCHANGED <<users, sessions, cookie>>
             /\ Cardinality(UsersWithEmail(users', e)) = 1
       /\ (At(c, "signUp_select") /\ UsersWithEmail(users, e) = {} /\ NoFault)
          => pc'[c] = "signUp_insertUser"
       /\ (At(c, "signUp_insertUser") /\ UsersWithEmail(users, e) = {} /\ NoFault)
          => /\ pc'[c] = "signUp_insertSession"
             /\ Cardinality(UsersWithEmail(users', e)) = 1
       /\ (At(c, "signUp_insertSession") /\ NoFault) => pc'[c] = "signUp_setCookie"
       /\ (At(c, "signUp_setCookie") /\ NoFault /\ pc'[c] = "returned")
          => /\ IsSuccess(ret'[c])
             /\ Val(ret'[c].data).user.email = e
             /\ Cardinality(UsersWithEmail(users', e)) = 1]_vars

\* a second signUp of b@x.com, after the one that registered it, has failed
C1_Witness ==
  \E c \in Calls :
    /\ pc[c] = "returned"
    /\ req[c].op = "signUp"
    /\ req[c].email = "b@x.com"
    /\ ret[c] = Failure(DuplicateUser)
    /\ Cardinality(UsersWithEmail(users, "b@x.com")) = 1
    /\ \E s \in sessions : \E u \in users : u.email = "b@x.com" /\ s.userId = u.id

\* C2: no two user rows share an email, under every interleaving of the
\* lookups and inserts of concurrent signUp calls; of the signUp calls for one
\* email that have ended together at most one has returned success, and
\* every other one has ended with a failure.
C2_UniqueEmail ==
  /\ \A u, v \in users : u.email = v.email => u = v
  /\ \A c, d \in Calls :
       (c # d /\ req[c].op = "signUp" /\ req[d].op = "signUp" /\ req[c].email = req[d].email
        /\ pc[c] = "returned" /\ pc[d] = "returned")
       => ~(IsSuccess(ret[c]) /\ IsSuccess(ret[d]))
  /\ \A c \in Calls :
       (req[c].op = "signUp" /\ pc[c] = "returned" /\ ~IsSuccess(ret[c])) => IsFailure(ret[c])

\* two signUp calls for one email raced: one registered it, the other lost
\* at the unique constraint
C2_Witness ==
  \E c, d \in Calls :
    /\ c # d
    /\ req[c].op = "signUp" /\ req[d].op = "signUp"
    /\ req[c].email = req[d].email
    /\ pc[c] = "returned" /\ IsSuccess(ret[c])
    /\ pc[d] = "returned" /\ ret[d] = Failure(UniqueViolation)

\* C3: a successful signUp or signIn leaves in the token of its client the id
\* of a session row of the returned user that is in the store and not
\* expired; a getSession that reads a token whose row is in the store before
\* its expiration returns success with the owner of the row and with the row
\* whose id is the token value; no step of such a getSession changes the
\* user rows, the session rows or any token.
C3_GetSessionAfterSignIn ==
  [][\A c \in Calls :
       /\ ((At(c, "signUp_setCookie") \/ At(c, "signIn_setCookie"))
           /\ pc'[c] = "returned" /\ IsSuccess(ret'[c]))
          => /\ ~IsNull(cookie'[req[c].client])
             /\ \E s \in sessions' :
                  /\ s.id = Val(cookie'[req[c].client]).value
                  /\ s.userId = Val(ret'[c].data).user.id
                  /\ now < s.expiresAt
       /\ Starts(c, "getSession") => UNCHANGED <<users, sessions, cookie>>
       /\ (At(c, "getSession_select") /\ NoFault)
          => \A s \in Owned(users, sessions, Val(loc[c].sessionId)) :
               now < s.expiresAt
               => /\ pc'[c] = "returned"
                  /\ IsSuccess(ret'[c])
                  /\ Val(ret'[c].data).session = s
                  /\ Val(ret'[c].data).session.id = Val(loc[c].sessionId)
                  /\ \E u \in users : /\ u.id = s.userId
                                      /\ Val(ret'[c].data).user =
                                           [id |-> u.id, name |-> u.name, email |-> u.email]
                  /\ UNCHANGED <<users, sessions, cookie>>]_vars

\* getSession has returned the session that a call of this behaviour created
C3_Witness ==
  \E c \in Calls :
    /\ pc[c] = "returned"
    /\ req[c].op = "getSession"
    /\ IsSuccess(ret[c])
    /\ Val(ret[c].data).session \notin SignedIn.sessions
    /\ ~IsNull(cookie[req[c].client])
    /\ Val(cookie[req[c].client]).value = Val(ret[c].data).session.id

\* C4: a getSession that finds the row of its token with an expiration in
\* the past does not return success: it deletes that row, clears the token
\* of its client and returns the failure "Session is expired"; a getSession
\* of a client whose token is cleared returns "Session id is not exist in
\* cookie" (NoActiveSession); and getSession returns success only with a row
\* that is in the store, and a row once deleted is never inserted again.
C4_ExpiredSession ==
  [][\A c \in Calls :
       /\ (At(c, "getSession_select") /\ NoFault)
          => \A s \in Owned(users, sessions, Val(loc[c].sessionId)) :
               s.expiresAt < now => pc'[c] = "getSession_delete"
       /\ (At(c, "getSession_delete") /\ NoFault)
          => /\ RowsWithId(sessions', Val(loc[c].sessionId)) = {}
             /\ IsNull(cookie'[req[c].client])
             /\ pc'[c] = "returned"
             /\ ret'[c] = Failure(SessionExpired)
       /\ (Starts(c, "getSession") /\ IsNull(cookie[req'[c].client]) /\ NoFault)
          => /\ pc'[c] = "returned"
             /\ ret'[c] = Failure(NoSessionIdInCookie)
       /\ (req'[c].op = "getSession" /\ pc'[c] = "returned" /\ pc[c] # "returned"
           /\ IsSuccess(ret'[c]))
          => Val(ret'[c].data).session \in sessions'
       /\ \A s \in sessions' \ sessions : s.id >= nextSessionId /\ nextSessionId' > s.id]_vars

\* getSession has deleted the expired session of its client and cleared the token
C4_Witness ==
  \E c \in Calls :
    /\ pc[c] = "returned"
    /\ req[c].op = "getSession"
    /\ ret[c] = Failure(SessionExpired)
    /\ IsNull(cookie[req[c].client])
    /\ \E s \in SignedIn.sessions : s \notin sessions /\ s.expiresAt < now

\* C5: a signOut that succeeds has deleted the session row of its token and
\* cleared the token of its client; a getSession that the same client then
\* makes, reading the cleared token, returns "Session id is not exist in
\* cookie" (NoActiveSession) and not "Session is not exist in database".
C5_SignOutThenGetSession ==
  [][\A c \in Calls :
       /\ (At(c, "signOut_delete") /\ pc'[c] = "returned" /\ IsSuccess(ret'[c]))
          => /\ RowsWithId(sessions', Val(loc[c].sessionId)) = {}
             /\ IsNull(cookie'[req[c].client])
       /\ (Starts(c, "getSession") /\ IsNull(cookie[req'[c].client]))
          => /\ pc'[c] = "returned"
             /\ ret'[c] # Failure(SessionNotInDatabase)
             /\ NoFault => ret'[c] = Failure(NoSessionIdInCookie)]_vars

\* after the signOut of client A, before any expiration, getSession of A
\* has returned NoActiveSession
C5_Witness ==
  \E c \in Calls :
    /\ pc[c] = "returned"
    /\ req[c].op = "getSession"
    /\ req[c].client = "A"
    /\ ret[c] = Failure(NoSessionIdInCookie)
    /\ nticks = 0 /\ nfaults = 0
    /\ \E s, t \in SignedIn.sessions :
         /\ s \notin sessions /\ s.id = 1
         /\ t \in sessions /\ t.id = 2

\* C6: signOut called with no token present ends at once with the failure
\* "Session id is not valid" (NoActiveSession) and performs no store
\* operation: it never reaches its select or its delete, and the user and
\* session tables and the token are unchanged.
C6_SignOutWithoutToken ==
  [][\A c \in Calls :
       (Starts(c, "signOut") /\ IsNull(cookie[req'[c].client]))
       => /\ pc'[c] \in {"returned", "threw"}
          /\ (pc'[c] = "returned" /\ NoFault) => ret'[c] = Failure(NoSessionIdSignOut)
          /\ UNCHANGED <<users, sessions, cookie>>]_vars

C6_Witness ==
  \E c \in Calls :
    /\ pc[c] = "returned"
    /\ req[c].op = "signOut"
    /\ ret[c] = Failure(NoSessionIdSignOut)
    /\ IsNull(cookie[req[c].client])

\* C7: every signIn that inserts a session inserts exactly one row, with an
\* id that no row has or had; a session row leaves the store only in the
\* delete step of a signOut or getSession that read its id from the token,
\* and in the latter case only when expired, so ending one session of a user
\* leaves the other rows in the store; and a getSession that meets no fault
\* returns success exactly when the row of its token is in the store, with
\* its user, and not expired.
C7_IndependentSessions ==
  [][/\ \A s, t \in sessions' : s.id = t.id => s = t
     /\ \A c \in Calls :
          (At(c, "signIn_insertSession") /\ NoFault)
          => /\ Cardinality(sessions' \ sessions) = 1
             /\ sessions \subseteq sessions'
             /\ \A s \in sessions' \ sessions :
                  /\ s.userId = Val(loc[c].user).id
                  /\ \A t \in sessions : t.id < s.id
     /\ \A s \in sessions \ sessions' :
          \E c \in Calls :
            /\ loc[c].sessionId = <<s.id>>
            /\ \/ At(c, "signOut_delete")
               \/ At(c, "getSession_delete") /\ s.expiresAt < now
     /\ \A c \in Calls :
          (At(c, "getSession_select") /\ NoFault /\ pc'[c] = "returned")
          => (IsSuccess(ret'[c])
              <=> \E s \in Owned(users, sessions, Val(loc[c].sessionId)) :
                    ~(s.expiresAt < now))]_vars

\* one of the two sessions of the user was ended (signed out or expired) and
\* getSession with the other one has succeeded
C7_Witness ==
  \E c \in Calls :
    /\ pc[c] = "returned"
    /\ req[c].op = "getSession"
    /\ IsSuccess(ret[c])
    /\ Val(ret[c].data).session \in SignedIn.sessions
    /\ \E s \in SignedIn.sessions :
         /\ s \notin sessions
         /\ s.userId = Val(ret[c].data).session.userId

\* C8: every value returned by signUp, signIn, signOut and getSession has
\* exactly one of data and error non-null.
C8_ResultEnvelope ==
  \A c \in Calls :
    pc[c] = "returned" => ((ret[c].data = Null) # (ret[c].error = Null))

\* one call has returned a success and another a failure
C8_Witness ==
  \E c, d \in Calls :
    /\ pc[c] = "returned" /\ ret[c].data # Null /\ ret[c].error = Null
    /\ pc[d] = "returned" /\ ret[d].data = Null /\ ret[d].error # Null

\* C9: no call of signUp, signIn, signOut or getSession ends with a fault
\* escaping to the caller.
C9_NoFaultEscapes ==
  \A c \in Calls : pc[c] # "threw"

\* C10: in signUp and signIn a failed session insert ends the call with a
\* failure, inserts no row and leaves every token as it was; and a token is
\* set only in the step after the session insert of the same call returned
\* its row, to the id of that row, which is in the store.
C10_NoTokenWithoutSession ==
  [][/\ \A c \in Calls :
          ((At(c, "signUp_insertSession") \/ At(c, "signIn_insertSession"))
           /\ pc'[c] # "signUp_setCookie" /\ pc'[c] # "signIn_setCookie")
          => /\ UNCHANGED <<sessions, cookie>>
             /\ pc'[c] \in {"returned", "threw"}
             /\ pc'[c] = "returned" => ret'[c] = Failure(StoreError)
     /\ \A c \in Calls :
          (At(c, "signUp_insertSession") \/ At(c, "signIn_insertSession"))
          => UNCHANGED cookie
     /\ \A cl \in Clients :
          (cookie'[cl] # cookie[cl] /\ ~IsNull(cookie'[cl]))
          => \E c \in Calls :
               /\ At(c, "signUp_setCookie") \/ At(c, "signIn_setCookie")
               /\ req[c].client = cl
               /\ ~IsNull(loc[c].session)
               /\ Val(cookie'[cl]).value = Val(loc[c].session).id
               /\ Val(loc[c].session) \in sessions]_vars

\* the session insert of a signUp failed after its user insert: the user
\* has no session and the client no token
C10_Witness ==
  \E c \in Calls :
    /\ pc[c] = "returned"
    /\ req[c].op = "signUp"
    /\ ret[c] = Failure(StoreError)
    /\ IsNull(cookie[req[c].client])
    /\ \E u \in UsersWithEmail(users, req[c].email) :
         \A s \in sessions : s.userId # u.id

\* C11: a session is one-way.  Every session row that signUp or signIn
\* inserts has an id that no row has and that was never issued before (the
\* ids issued so far are those below nextSessionId, which never decreases);
\* hence a row that signOut or the expiration in getSession removed is never
\* in the store again, and getSession returns success only with a row that
\* is in the store under the id of the token it read.
C11_OneWaySession ==
  [][/\ nextSessionId' >= nextSessionId
     /\ \A s \in sessions : s.id < nextSessionId
     /\ \A s \in sessions' \ sessions :
          /\ s.id >= nextSessionId
          /\ s.id < nextSessionId'
          /\ \A t \in sessions : t.id # s.id
     /\ \A c \in Calls :
          (At(c, "getSession_select") /\ pc'[c] = "returned" /\ IsSuccess(ret'[c]))
          => /\ Val(ret'[c].data).session \in sessions
             /\ Val(ret'[c].data).session.id = Val(loc[c].sessionId)
     /\ \A c \in Calls :
          (At(c, "getSession_select") /\ RowsWithId(sessions, Val(loc[c].sessionId)) = {})
          => /\ pc'[c] = "returned"
             /\ IsFailure(ret'[c])
             /\ UNCHANGED sessions]_vars

\* the session of client A was removed, and a getSession that still carried
\* its id has failed because the row is not in the store
C11_Witness ==
  \E c \in Calls :
    /\ pc[c] = "returned"
    /\ req[c].op = "getSession"
    /\ req[c].client = "A"
    /\ ret[c] = Failure(SessionNotInDatabase)
    /\ \E s, t \in SignedIn.sessions :
         /\ s.id = 1 /\ s \notin sessions
         /\ t.id = 2 /\ t \in sessions

\* C12: getSession returns success for a session only while now < expiresAt:
\* a getSession that finds the row of its token at a time now >= expiresAt,
\* the time now = expiresAt included, does not return success and goes on
\* to delete the row as expired.
C12_ExpiredFromExpiresAt ==
  [][\A c \in Calls :
       (At(c, "getSession_select") /\ NoFault)
       => \A s \in Owned(users, sessions, Val(loc[c].sessionId)) :
            now >= s.expiresAt
            => /\ ~(pc'[c] = "returned" /\ IsSuccess(ret'[c]))
               /\ pc'[c] = "getSession_delete"]_vars

\* C13: in every state the userId of every session row is the id of exactly
\* one user row of the store; and the session row that signUp or signIn
\* inserts has the id of a user row that is in the store at the insert: the
\* row the call itself inserted or selected.
C13_SessionHasUser ==
  [][/\ \A s \in sessions : Cardinality({u \in users : u.id = s.userId}) = 1
     /\ \A s \in sessions' : Cardinality({u \in users' : u.id = s.userId}) = 1
     /\ \A c \in Calls :
          (At(c, "signUp_insertSession") \/ At(c, "signIn_insertSession"))
          => \A s \in sessions' \ sessions :
               /\ \E u \in users : u.id = s.userId
               /\ s.userId = Val(loc[c].user).id
               /\ Val(loc[c].user) \in users]_vars

\* signIn has returned the user whose new session row is in the store
C13_Witness ==
  \E c \in Calls :
    /\ pc[c] = "returned"
    /\ req[c].op = "signIn"
    /\ IsSuccess(ret[c])
    /\ \E s \in sessions \ SignedIn.sessions, u \in users :
         /\ s.userId = u.id
         /\ u.email = req[c].email
         /\ Val(ret[c].data).user.id = u.id

\* C14: a signIn whose email matches no user row, or whose password does not
\* verify against the hash stored in the matching row, ends in that step with
\* a failure ("Email is not valid", "Password is not valid": the kind
\* InvalidCredentials); no step of such a call inserts a session row or
\* changes a user row, a session row or a token.
C14_InvalidCredentials ==
  [][\A c \in Calls :
       /\ Starts(c, "signIn") => UNCHANGED <<users, sessions, cookie>>
       /\ (At(c, "signIn_select") /\ UsersWithEmail(users, req[c].email) = {})
          => /\ pc'[c] \in {"returned", "threw"}
             /\ pc'[c] = "returned" => IsFailure(ret'[c])
             /\ (pc'[c] = "returned" /\ NoFault) => ret'[c] = Failure(EmailNotValid)
             /\ UNCHANGED <<users, sessions, cookie, nextSessionId>>
       /\ (At(c, "signIn_select")
           /\ UsersWithEmail(users, req[c].email) # {}
           /\ \A u \in UsersWithEmail(users, req[c].email) :
                u.password # [bcrypt |-> Val(loc[c].password)])
          => /\ pc'[c] \in {"returned", "threw"}
             /\ pc'[c] = "returned" => IsFailure(ret'[c])
             /\ (pc'[c] = "returned" /\ NoFault) => ret'[c] = Failure(PasswordNotValid)
             /\ UNCHANGED <<users, sessions, cookie, nextSessionId>>]_vars

\* one signIn has failed on its email and another on its password, and the
\* store and the tokens are as they were
C14_Witness ==
  \E c, d \in Calls :
    /\ pc[c] = "returned" /\ req[c].op = "signIn" /\ ret[c] = Failure(EmailNotValid)
    /\ pc[d] = "returned" /\ req[d].op = "signIn" /\ ret[d] = Failure(PasswordNotValid)
    /\ users = SignedIn.users
    /\ sessions = SignedIn.sessions
    /\ cookie = SignedIn.cookie

\* C15: no step of a signIn changes a user row or removes or changes a
\* session row; its insert step, when the store does not fail, adds exactly
\* one session row and is never refused because of the sessions the user
\* already has; so a successful signIn has added exactly one row, and one
\* user can have any number of sessions at once.
C15_SignInAddsOneSession ==
  [][\A c \in Calls :
       /\ (Starts(c, "signIn") \/ At(c, "signIn_select") \/ At(c, "signIn_setCookie"))
          => UNCHANGED <<users, sessions>>
       /\ At(c, "signIn_insertSession")
          => /\ users' = users
             /\ sessions \subseteq sessions'
             /\ NoFault => /\ Cardinality(sessions' \ sessions) = 1
                            /\ pc'[c] = "signIn_setCookie"
       /\ (At(c, "signIn_setCookie") /\ pc'[c] = "returned" /\ IsSuccess(ret'[c]))
          => /\ Val(loc[c].session) \in sessions'
             /\ Val(loc[c].session).userId = Val(ret'[c].data).user.id]_vars

\* after two more signIn calls the user has four sessions at once
C15_Witness ==
  \E c \in Calls, u \in users :
    /\ pc[c] = "returned"
    /\ req[c].op = "signIn"
    /\ IsSuccess(ret[c])
    /\ Val(ret[c].data).user.id = u.id
    /\ Cardinality({s \in sessions : s.userId = u.id}) = 4
    /\ SignedIn.sessions \subseteq sessions

\* C16: when signOut and getSession calls race on one session id, a step
\* removes at most one session row, and only the row of the id the call
\* read; a signOut returns success only in the step in which it removed the
\* row, so at most one of them does; a call that finds the row already gone,
\* at its select or at its delete, changes no row and ends with a failure
\* result ("User is not exist in database" and "Session is not exist in
\* database": the kind SessionNotFound, or "Session is expired"); and no
\* user row and no other session row is changed.
C16_RaceOnSession ==
  [][/\ Cardinality(sessions \ sessions') <= 1
     /\ \A c \in Calls :
          LET gone == RowsWithId(sessions, Val(loc[c].sessionId)) = {}
              frame == UNCHANGED <<users, sessions>>
          IN /\ (At(c, "signOut_delete") \/ At(c, "getSession_delete"))
                => /\ users' = users
                   /\ sessions' \subseteq sessions
                   /\ \A s \in sessions \ sessions' : s.id = Val(loc[c].sessionId)
             /\ (At(c, "signOut_delete") /\ pc'[c] = "returned" /\ IsSuccess(ret'[c]))
                => /\ ~gone
                   /\ RowsWithId(sessions', Val(loc[c].sessionId)) = {}
             /\ (At(c, "signOut_select") /\ gone)
                => /\ pc'[c] \in {"returned", "threw"}
                   /\ pc'[c] = "returned" => IsFailure(ret'[c])
                   /\ (pc'[c] = "returned" /\ NoFault) => ret'[c] = Failure(UserNotInDatabase)
                   /\ frame
             /\ (At(c, "signOut_delete") /\ gone)
                => /\ pc'[c] \in {"returned", "threw"}
                   /\ pc'[c] = "returned" => IsFailure(ret'[c])
                   /\ (pc'[c] = "returned" /\ NoFault) => ret'[c] = Failure(SessionNotInDatabase)
                   /\ frame
             /\ (At(c, "getSession_select") /\ gone)
                => /\ pc'[c] = "returned"
                   /\ IsFailure(ret'[c])
                   /\ NoFault => ret'[c] = Failure(SessionNotInDatabase)
                   /\ frame
             /\ (At(c, "getSession_delete") /\ gone)
                => /\ pc'[c] = "returned"
                   /\ IsFailure(ret'[c])
                   /\ NoFault => ret'[c] = Failure(SessionExpired)
                   /\ frame]_vars

\* two signOut calls raced on the session of one client: one removed the row
\* and succeeded, the other found nothing to delete
C16_Witness ==
  \E c, d \in Calls :
    /\ req[c].op = "signOut" /\ req[d].op = "signOut"
    /\ req[c].client = req[d].client
    /\ pc[c] = "returned" /\ IsSuccess(ret[c])
    /\ pc[d] = "returned" /\ ret[d] = Failure(SessionNotInDatabase)
    /\ Cardinality(sessions) = 1
    /\ users = SignedIn.users

\* C17: a get-session request, POST or GET, whose route parameters are read
\* invokes getSession; and whenever getSession returned a failure (no token,
\* session not found, session expired, store or transport error) the
\* response has status 200 and the body { session: null }, never an error
\* status.
C17_GetSessionFailureIs200 ==
  (http.pc = "responded" /\ http.request.action = "get-session")
  => /\ http.request.params = "ok" => http.invoked = <<"getSession">>
     /\ (http.invoked = <<"getSession">> /\ Val(http.result).error # Null)
        => /\ Val(http.response).status = 200
           /\ Val(http.response).body.keys = {"session"}
           /\ Val(http.response).body.session = Null

\* a GET get-session whose getSession found the session expired was
\* answered 200
C17_Witness ==
  /\ http.pc = "responded"
  /\ http.request.method = "GET"
  /\ http.request.action = "get-session"
  /\ http.result = Some(Failure(SessionExpired))
  /\ Val(http.response).status = 200
  /\ Val(http.response).body.session = Null

\* C18: serving a request invokes at most one operation of the authority,
\* and only the one the action names; a POST with an unknown action, a GET
\* with an action other than get-session, and a sign-up or sign-in whose
\* body is unreadable or has no (or an empty) email or password are
\* answered with an error body and an error status without any operation
\* being invoked, and so without a change to the store or to a token.
C18_OneOperationPerRequest ==
  [][(http.pc = "received" /\ http'.pc = "responded")
     => LET r == http.request
            invoked == http'.invoked
            rejected == /\ invoked = <<>>
                        /\ Val(http'.response).status >= 400
                        /\ Val(http'.response).body.keys = {"error"}
            lacks(f) == f = Null \/ f = Some("")
        IN /\ Len(invoked) <= 1
           /\ invoked # <<>>
              => /\ r.action = "sign-up" => invoked = <<"signUp">>
                 /\ r.action = "sign-in" => invoked = <<"signIn">>
                 /\ r.action = "sign-out" => invoked = <<"signOut">>
                 /\ r.action = "get-session" => invoked = <<"getSession">>
                 /\ r.action \in {"sign-up", "sign-in", "sign-out", "get-session"}
           /\ (r.method = "POST"
               /\ r.action \notin {"sign-up", "sign-in", "sign-out", "get-session"})
              => rejected
           /\ (r.method = "GET" /\ r.action # "get-session") => rejected
           /\ (r.method = "POST" /\ r.action \in {"sign-up", "sign-in"}
               /\ (r.body = Null \/ lacks(Val(r.body).email) \/ lacks(Val(r.body).password)))
              => rejected
           /\ invoked = <<>> => UNCHANGED <<users, sessions, cookie>>]_vars

\* a sign-up without a password was rejected before signUp was invoked
C18_Witness ==
  /\ http.pc = "responded"
  /\ http.request.method = "POST"
  /\ http.request.action = "sign-up"
  /\ http.request.params = "ok"
  /\ http.request.body = Some([email |-> Some("a@x.com"), password |-> Null])
  /\ http.invoked = <<>>
  /\ Val(http.response).status = 400

\* C19: failures of the authority and failures of the adapter are answered
\* in separate status bands: the status that answers a failure result of
\* signUp, signIn or signOut (400) never answers a request that the adapter
\* itself turned down (unknown action, missing field, unreadable body, with
\* no operation invoked), and status 500 is given only when a fault was
\* raised in the adapter (route parameters or body could not be read).
C19_SeparateStatusBands ==
  http.pc = "responded"
  => /\ (http.invoked \in {<<"signUp">>, <<"signIn">>, <<"signOut">>}
         /\ Val(http.result).error # Null)
        => Val(http.response).status = 400
     /\ http.invoked = <<>> => Val(http.response).status # 400
     /\ Val(http.response).status = 500
        => (http.request.params = "fault" \/ http.request.body = Null)

\* C20: for a caller without a valid session (no token, no session row, or
\* an expired session) getSession resolves to a falsy value, so the guard
\* of the documented page, if (!session) redirect("/sign-in"), redirects.
C20_GuardRedirects ==
  \A c \in Calls :
    (pc[c] = "returned" /\ req[c].op = "getSession" /\ ret[c].data = Null)
    => /\ ~ToBoolean(ret[c])
       /\ DashboardPage(ret[c]) = "redirect"

\* C21: the user part of every success payload of signUp, signIn, signOut
\* and getSession has exactly the fields id, name and email, and so has the
\* user part of the body with which the route handler answers that result;
\* the payload of signUp, signIn and signOut has no other part, and that of
\* getSession only the session row, which holds no password.
C21_NoPasswordInPayload ==
  \A c \in Calls :
    (pc[c] = "returned" /\ ret[c].data # Null)
    => LET d == Val(ret[c].data)
           body == IF req[c].op = "getSession"
                     THEN Val(handleGetSession(ret[c]).response).body
                     ELSE Val(SignActionResponse(req[c].op, ret[c], "failed").response).body
       IN /\ DOMAIN d.user = {"id", "name", "email"}
          /\ req[c].op # "getSession" => DOMAIN d = {"user"}
          /\ req[c].op = "getSession"
             => /\ DOMAIN d = {"user", "session"}
                /\ "password" \notin DOMAIN d.session
          /\ body.error = Null
          /\ body.user # Null => DOMAIN Val(body.user) = {"id", "name", "email"}
          /\ body.session # Null
             => /\ DOMAIN Val(body.session).user = {"id", "name", "email"}
                /\ "password" \notin DOMAIN Val(body.session).session

\* signOut, which reads every column of the user row, has returned the user
C21_Witness ==
  \E c \in Calls, u \in users :
    /\ pc[c] = "returned"
    /\ req[c].op = "signOut"
    /\ ret[c].data # Null
    /\ Val(ret[c].data).user.id = u.id
    /\ "password" \in DOMAIN u

\* C22: of a session row only its identifier and its expiration reach the
\* client: the session part of the body of a get-session response has no
\* field of the row other than id and expiresAt.
C22_OnlyIdAndExpiration ==
  (/\ http.pc = "responded"
   /\ http.response # Null
   /\ Val(http.response).body.session # Null)
  => DOMAIN Val(Val(http.response).body.session).session \subseteq {"id", "expiresAt"}

\* C23: every call of signUp, signIn or signOut that was given both
\* callbacks and has ended invoked exactly one of them, once: onSuccess with
\* the returned user if and only if it returned a success, onError with the
\* returned error if and only if it returned a failure.
C23_ExactlyOneCallback ==
  \A c \in Calls :
    (/\ pc[c] \in {"returned", "threw"}
     /\ req[c].op \in {"signUp", "signIn", "signOut"}
     /\ called[c].given.onSuccess
     /\ called[c].given.onError)
    => LET inv == called[c].invoked
           succeeded == pc[c] = "returned" /\ ret[c].data # Null /\ ret[c].error = Null
           failed == pc[c] = "returned" /\ ret[c].data = Null /\ ret[c].error # Null
       IN /\ Len(inv) = 1
          /\ inv[1].callback = "onSuccess" <=> succeeded
          /\ inv[1].callback = "onError" <=> failed
          /\ succeeded => inv[1].user = Some(Val(ret[c].data).user)
          /\ failed => inv[1].error = ret[c].error

\* C24: in the useSession hook isLoading is never false while a fetch is
\* still pending, and once no fetch is pending the data and error shown are
\* those of the fetch that was started last.
C24_LoadingWhileFetching ==
  hook.pc = "mounted"
  => /\ (\E f \in DOMAIN hook.fetches : hook.fetches[f].pc # "done") => hook.isLoading
     /\ (/\ hook.fetches # <<>>
         /\ \A f \in DOMAIN hook.fetches : hook.fetches[f].pc = "done")
        => LET last == Val(hook.fetches[Len(hook.fetches)].shown)
           IN hook.data = last.data /\ hook.error = last.error

\* C25: a signUp in which the session insert or the setting of the token
\* fails after its user row was inserted ends with a failure, and leaves the
\* user row in the store and no session row of its own; as long as that user
\* has no session, a signUp with the same email then fails with "User
\* already exists" and a signIn with the same email and password goes on to
\* insert a session.
C25_FailedSignUpKeepsUser ==
  [][\A c \in Calls :
       /\ ((At(c, "signUp_insertSession") \/ At(c, "signUp_setCookie")) /\ nfaults' # nfaults)
          => /\ pc'[c] \in {"returned", "threw"}
             /\ pc'[c] = "returned" => (ret'[c].data = Null /\ ret'[c].error # Null)
             /\ users' = users
             /\ Val(loc[c].user) \in users'
             /\ sessions' \subseteq sessions
             /\ loc[c].session # Null => Val(loc[c].session) \notin sessions'
       /\ (/\ At(c, "signUp_select")
           /\ nfaults' = nfaults
           /\ \E u \in users : /\ u.email = req[c].email
                                /\ \A x \in sessions : x.userId # u.id)
          => /\ pc'[c] \in {"returned", "threw"}
             /\ pc'[c] = "returned" => ret'[c] = [data |-> Null, error |-> Some(DuplicateUser)]
             /\ UNCHANGED <<users, sessions, cookie>>
       /\ (/\ At(c, "signIn_select")
           /\ nfaults' = nfaults
           /\ \E u \in users : /\ u.email = req[c].email
                                /\ u.password = [bcrypt |-> Val(loc[c].password)]
                                /\ \A x \in sessions : x.userId # u.id)
          => pc'[c] = "signIn_insertSession"
       /\ (/\ At(c, "signIn_insertSession")
           /\ nfaults' = nfaults)
          => \E x \in sessions' \ sessions : x.userId = Val(loc[c].user).id]_vars

\* C26: the token a signUp or signIn sets has as value the id of the session
\* row that the same call inserted and as expiration that row's expiresAt,
\* which is the time of the insert plus 24 hours; and whenever a step sets
\* a token, its value is the id of a session row in the store after the step.
C26_TokenOfInsertedRow ==
  [][\A c \in Calls :
       /\ ((At(c, "signUp_insertSession") \/ At(c, "signIn_insertSession")) /\ nfaults' = nfaults)
          => \E row \in sessions' \ sessions :
               /\ sessions' = sessions \cup {row}
               /\ loc'[c].session = <<row>>
               /\ row.expiresAt = now + TTL
               /\ row.userId = Val(loc[c].user).id
               /\ cookie' = cookie
       /\ \A cl \in Clients :
            (cookie'[cl] # cookie[cl] /\ cookie'[cl] # Null)
            => /\ \E d \in Calls :
                    /\ At(d, "signUp_setCookie") \/ At(d, "signIn_setCookie")
                    /\ req[d].client = cl
                    /\ loc[d].session # Null
                    /\ Val(cookie'[cl]).value = Val(loc[d].session).id
                    /\ Val(cookie'[cl]).expires = Val(loc[d].session).expiresAt
               /\ \E s \in sessions' :
                    /\ s.id = Val(cookie'[cl]).value
                    /\ s.expiresAt = Val(cookie'[cl]).expires]_vars

\* a signIn has set a token after the clock advanced past its insert: the
\* token expires with the row, not 24 hours after the token was set
C26_Witness ==
  \E c \in Calls, s \in sessions :
    /\ pc[c] = "returned"
    /\ req[c].op = "signIn"
    /\ ret[c].data # Null
    /\ cookie[req[c].client] # Null
    /\ Val(cookie[req[c].client]).value = s.id
    /\ Val(cookie[req[c].client]).expires = s.expiresAt
    /\ s \notin SignedIn.sessions
    /\ s.expiresAt < now + TTL

\* C27: a signOut clears the token only in the step in which its delete
\* removed the session row of its token; a signOut that returns the failure
\* "Session id is not valid" (no token), "User is not exist in database"
\* (join empty) or "Session is not exist in database" (zero rows deleted),
\* or the failure of a store operation, has in none of its steps changed a
\* token or removed a session row.
C27_FailedSignOutChangesNothing ==
  [][\A c \in Calls :
       /\ (At(c, "signOut_select") \/ (Starts(c, "signOut") /\ pc'[c] = "signOut_select"))
          => UNCHANGED <<users, sessions, cookie>>
       /\ (At(c, "signOut_delete") /\ cookie' # cookie)
          => /\ \E s \in sessions \ sessions' : loc[c].sessionId = <<s.id>>
             /\ cookie'[req[c].client] = Null
             /\ \A cl \in Clients \ {req[c].client} : cookie'[cl] = cookie[cl]
       /\ (/\ Starts(c, "signOut") \/ At(c, "signOut_select") \/ At(c, "signOut_delete")
           /\ pc'[c] = "returned"
           /\ ret'[c].data = Null
           /\ ret'[c].error \in {Some(NoSessionIdSignOut), Some(UserNotInDatabase),
                                 Some(SessionNotInDatabase), Some(StoreError)})
          => UNCHANGED <<users, sessions, cookie>>]_vars

\* a signOut found the user of its token, lost the race for the row to a
\* signOut of the same token, and returned the failure with its token,
\* the other session and the user still there
C27_Witness ==
  \E c \in Calls :
    /\ pc[c] = "returned"
    /\ req[c].op = "signOut"
    /\ ret[c] = Failure(SessionNotInDatabase)
    /\ cookie["B"] = SignedIn.cookie["B"]
    /\ \E s \in sessions : <<s.id>> = CookieValue("B")
    /\ users = SignedIn.users

\* C28: a getSession whose client holds a token reads that token and leaves
\* it in place; when its lookup finds no session row with the id of the
\* token it returns the failure "Session is not exist in database"
\* (SessionNotFound) and changes neither the token nor the store; and while
\* a client holds a token of which no row exists, the start and the lookup
\* of its getSession calls leave it holding that token with still no row, so
\* that "Session id is not exist in cookie" (NoActiveSession) is not returned.
C28_MissingRowKeepsToken ==
  [][\A c \in Calls :
       /\ (Starts(c, "getSession") /\ cookie[req'[c].client] # Null)
          => /\ UNCHANGED <<users, sessions, cookie>>
             /\ ~(pc'[c] = "returned" /\ ret'[c].error = Some(NoSessionIdInCookie))
             /\ nfaults' = nfaults
                => /\ pc'[c] = "getSession_select"
                   /\ loc'[c].sessionId = <<Val(cookie[req'[c].client]).value>>
       /\ (/\ At(c, "getSession_select")
           /\ nfaults' = nfaults
           /\ \A s \in sessions : loc[c].sessionId # <<s.id>>)
          => /\ pc'[c] = "returned"
             /\ ret'[c] = [data |-> Null, error |-> Some(SessionNotInDatabase)]
             /\ UNCHANGED <<users, sessions, cookie>>
       /\ \A cl \in Clients :
            (/\ cookie[cl] # Null
             /\ \A s \in sessions : s.id # Val(cookie[cl]).value
             /\ \/ Starts(c, "getSession") /\ req'[c].client = cl
                \/ At(c, "getSession_select") /\ req[c].client = cl)
            => /\ cookie'[cl] = cookie[cl]
               /\ \A s \in sessions' : s.id # Val(cookie[cl]).value]_vars

\* the row of a token is gone and the token was left behind; a getSession
\* of its client has returned SessionNotFound and the token is still there
C28_Witness ==
  \E c \in Calls :
    /\ pc[c] = "returned"
    /\ req[c].op = "getSession"
    /\ ret[c] = Failure(SessionNotInDatabase)
    /\ cookie[req[c].client] # Null
    /\ \A s \in sessions : s.id # Val(cookie[req[c].client]).value

\* C29: signOut does not look at the expiration: when the session row of
\* its token exists and its expiresAt is in the past, the lookup goes on to
\* the delete, and the delete removes the row, clears the token and ends
\* the call with a success that carries the owning user, not with the
\* failure "Session is expired".
C29_SignOutOfExpiredSession ==
  [][\A c \in Calls :
       /\ (/\ At(c, "signOut_select")
           /\ nfaults' = nfaults
           /\ \E s \in sessions, u \in users :
                 loc[c].sessionId = <<s.id>> /\ s.userId = u.id /\ s.expiresAt < now)
          => /\ pc'[c] = "signOut_delete"
             /\ \E s \in sessions, u \in users :
                  /\ loc[c].sessionId = <<s.id>>
                  /\ s.userId = u.id
                  /\ loc'[c].user = <<u>>
       /\ (/\ At(c, "signOut_delete")
           /\ nfaults' = nfaults
           /\ \E s \in sessions : loc[c].sessionId = <<s.id>> /\ s.expiresAt < now)
          => /\ \A s \in sessions' : loc[c].sessionId # <<s.id>>
             /\ cookie'[req[c].client] = Null
             /\ pc'[c] \in {"returned", "threw"}
             /\ pc'[c] = "returned"
                => /\ ret'[c].error = Null
                   /\ ret'[c].data # Null
                   /\ \E u \in users :
                        /\ u.id = Val(loc[c].user).id
                        /\ Val(ret'[c].data).user = [id |-> u.id, name |-> u.name, email |-> u.email]]_vars

\* a getSession of client A has found the session of A expired and is about
\* to delete it, and a signOut of A that deleted the row meanwhile has
\* returned the user
C29_Witness ==
  \E c, d \in Calls :
    /\ pc[d] = "getSession_delete"
    /\ req[d].client = "A"
    /\ pc[c] = "returned"
    /\ req[c].op = "signOut"
    /\ req[c].client = "A"
    /\ ret[c].data # Null
    /\ cookie["A"] = Null
    /\ \A s \in sessions : loc[d].sessionId # <<s.id>>

\* C30: a session row is never modified: a row of the store either stays as
\* it is, with its expiresAt and userId, or leaves the store, and it leaves
\* only in the delete step of a signOut or getSession that read the id of
\* that row from the token of its client; a getSession that returns a
\* success changes no row.
C30_SessionRowsImmutable ==
  [][/\ \A s \in sessions :
          /\ \A t \in sessions' :
               t.id = s.id => (t = s /\ t.expiresAt = s.expiresAt /\ t.userId = s.userId)
          /\ s \notin sessions'
             => \E c \in Calls :
                  /\ At(c, "signOut_delete") \/ At(c, "getSession_delete")
                  /\ req[c].op \in {"signOut", "getSession"}
                  /\ loc[c].sessionId = <<s.id>>
     /\ \A c \in Calls :
          /\ ((Starts(c, "signOut") \/ Starts(c, "getSession")) /\ loc'[c].sessionId # Null)
             => /\ cookie[req'[c].client] # Null
                /\ loc'[c].sessionId = <<Val(cookie[req'[c].client]).value>>
          /\ (pc[c] \in {"signOut_select", "signOut_delete", "getSession_select", "getSession_delete"}
              /\ pc'[c] \in {"signOut_delete", "getSession_delete"})
             => loc'[c].sessionId = loc[c].sessionId
          /\ (At(c, "getSession_select") /\ pc'[c] = "returned" /\ ret'[c].data # Null)
             => /\ sessions' = sessions
                /\ Val(ret'[c].data).session \in sessions']_vars

\* a getSession has returned the session row of its token, which is in the
\* store as it was inserted, and a signOut of the other client has removed
\* the row of its own token and no other
C30_Witness ==
  \E c, d \in Calls :
    /\ pc[c] = "returned"
    /\ req[c].op = "getSession"
    /\ ret[c].data # Null
    /\ Val(ret[c].data).session \in sessions \cap SignedIn.sessions
    /\ pc[d] = "returned"
    /\ req[d].op = "signOut"
    /\ ret[d].data # Null
    /\ req[d].client # req[c].client
    /\ Cardinality(sessions) = 1

\* C31: as long as refetch has not been called, the hook has started at most
\* one fetch, the one of the effect after the first render, and no render
\* that follows a completed fetch schedules the effect again; and in a
\* behaviour in which refetch is never called the hook comes to rest with
\* exactly that one fetch completed, isLoading false, and no render or
\* effect outstanding.
C31_OneFetchThenQuiescent ==
  /\ [][(\A f \in DOMAIN hook'.fetches : hook'.fetches[f].by # "refetch")
        => /\ Len(hook'.fetches) <= 1
           /\ Len(hook'.fetches) > Len(hook.fetches)
              => /\ hook.fetches = <<>>
                 /\ hook.renders = 1
                 /\ hook'.isLoading
           /\ (hook.fetches # <<>> /\ hook'.renders # hook.renders)
              => hook'.effect # "pending"]_vars
  /\ ([](\A f \in DOMAIN hook.fetches : hook.fetches[f].by # "refetch"))
     => <>[](/\ Len(hook.fetches) = 1
             /\ hook.fetches[1].pc = "done"
             /\ ~hook.isLoading
             /\ ~hook.dirty
             /\ hook.effect = "ran")

\* the one fetch of the effect has completed, the component has rendered
\* with its result, and nothing is outstanding
C31_Witness ==
  /\ hook.pc = "mounted"
  /\ Len(hook.fetches) = 1
  /\ hook.fetches[1].by = "useEffect"
  /\ hook.fetches[1].pc = "done"
  /\ hook.renders = 2
  /\ ~hook.dirty
  /\ ~hook.isLoading
  /\ hook.effect = "ran"

====
